---- MODULE Spec2Model ----
(***************************************************************************)
(* Update-ingestion and persistence pipeline of userteg.py: the console    *)
(* loop of main(), the long-poll loop start_monitoring, the normalizer     *)
(* process_message and the SQLite store of DatabaseManager.                *)
(*                                                                         *)
(* Absent values: Python's None and a missing dict key are modelled by     *)
(* NoId for integers and NoName for strings.  The only test the code makes *)
(* on identifiers is truthiness (all([...])), which None and 0 both fail.  *)
(*                                                                         *)
(* start_monitoring and process_message are modelled with the OSINT engine *)
(* as receiver (session, base_url, db_manager), which is how               *)
(* MenuSystem.handle_choice calls them; in userteg.py the text of          *)
(* start_monitoring follows the body of the second DatabaseManager class.  *)
(*                                                                         *)
(* DatabaseManager.store_user_data is called by process_message but has no *)
(* definition in userteg.py; it is modelled from section 4.1 of the        *)
(* specification (upsertUser).                                             *)
(***************************************************************************)
EXTENDS Integers, Sequences, FiniteSets, TLC

\* ------------------------------------------------------------------ bounds
MaxUpdates    == 2   \* update identifiers the remote API can deliver
MaxUserWrites == 3   \* user writes committed before the store stops accepting

\* ------------------------------------------------------------- value sets
NoId   == 0
NoName == "<none>"

Users     == {1, 2}
Chats     == {100}
Usernames == {"alice", "bob"}
MsgIds    == {1}
UpdateIds == 1..MaxUpdates

Max(a, b) == IF a >= b THEN a ELSE b

\* A message of the Bot API as process_message reads it.
Message(mid, cid, uid, name) ==
    [message_id |-> mid,
     chat       |-> [id |-> cid, title |-> "group"],
     from       |-> [id |-> uid, username |-> name, first_name |-> "N"],
     text       |-> "hello",
     date       |-> 0,
     photo      |-> FALSE,
     video      |-> FALSE,
     document   |-> FALSE,
     forward_from     |-> [present |-> FALSE, id |-> NoId],
     reply_to_message |-> [present |-> FALSE, message_id |-> NoId]]

\* Complete messages: user 1 under every username and without one, always
\* under the same message key. A second user and a second chat are in
\* ChatBodies and ScenarioFeed.
CompleteMessages ==
    { Message(m, c, 1, n) : m \in MsgIds, c \in Chats,
                            n \in Usernames \cup {NoName} }

\* One message for each member of the triad that can be missing.
NoChatId    == Message(1, NoId, 1, "alice")
NoMessageId == Message(NoId, 100, 1, "alice")
NoSender    == Message(1, 100, NoId, NoName)

IncompleteMessages == {NoChatId, NoMessageId, NoSender}

\* An update either carries a 'message' key or does not.
WithMessage(m) == [has_message |-> TRUE, message |-> m]
WithoutMessage ==
    [has_message |-> FALSE, message |-> Message(NoId, NoId, NoId, NoName)]

\* The updates of the general specification: the complete messages that
\* carry a username, and an update of another kind.
UpdateBodies ==
    { WithMessage(m) : m \in { x \in CompleteMessages : x.from.username # NoName } }
      \cup {WithoutMessage}

\* The updates of the specification of users without username: the complete
\* messages of alice and of the sender without username, and an update of
\* another kind.
NameBodies ==
    { WithMessage(m) : m \in { x \in CompleteMessages : x.from.username # "bob" } }
      \cup {WithoutMessage}

\* The updates of the specification of the skip rule: every way of being
\* skipped, next to one complete message.
SkipBodies ==
    { WithMessage(m) : m \in IncompleteMessages \cup {Message(1, 100, 1, "alice")} }
      \cup {WithoutMessage}

\* The updates of the end-to-end scenario in chat 100, in order: user 1
\* writes as alice, user 1 writes again as alicia, user 2 replies to message
\* 1; then one update that carries no message.
ScenarioFeed ==
    << WithMessage(Message(1, 100, 1, "alice")),
       WithMessage(Message(2, 100, 1, "alicia")),
       WithMessage([Message(3, 100, 2, "bob") EXCEPT !.reply_to_message = [present |-> TRUE, message_id |-> 1]]),
       WithoutMessage >>

\* The updates of the specification of message identity: message_id 1 in
\* chat 100 and in chat 200, and message_id 1 of chat 200 once more with
\* another sender.
ChatBodies ==
    { WithMessage(m) : m \in { Message(1, 100, 1, "alice"), Message(1, 200, 1, "alice"), Message(1, 200, 2, "bob") } }
      \cup {WithoutMessage}

\* One complete message under every combination of the keys photo, video
\* and document.
MediaMessages ==
    { [Message(1, 100, 1, "alice") EXCEPT !.photo = p, !.video = v, !.document = d] : p \in BOOLEAN, v \in BOOLEAN, d \in BOOLEAN }

\* One complete message under every shape of its forward origin and of its
\* reply target: key missing, object without the identifier, object with it.
OptionalMessages ==
    { [Message(1, 100, 1, "alice") EXCEPT !.forward_from = [present |-> f[1], id |-> f[2]], !.reply_to_message = [present |-> r[1], message_id |-> r[2]]] : f \in {<<FALSE, NoId>>, <<TRUE, NoId>>, <<TRUE, 7>>}, r \in {<<FALSE, NoId>>, <<TRUE, NoId>>, <<TRUE, 5>>} }

\* Feeds whose first update carries one of the given messages and whose
\* other updates carry no message.
FeedsOf(msgs) ==
    { [u \in UpdateIds |-> IF u = 1 THEN WithMessage(m) ELSE WithoutMessage] : m \in msgs }

\* The updates of the specification of progress: one complete message and
\* an update that carries no message.
LiveBodies == { WithMessage(Message(1, 100, 1, "alice")), WithoutMessage }

VARIABLES
    pc,               \* position of the single thread of control;
                      \* "poll": the getUpdates request is in flight
    exit,             \* how the start_monitoring call ended
    last_update_id,   \* local of start_monitoring
    ok,               \* data.get('ok') of the last response
    updates,          \* updates of the response not yet iterated (ids)
    update,           \* loop variable of "for update in updates" (its id)
    writes,           \* tables written so far for the update in dispatch
    feed,             \* remote API: body of every update identifier
    confirmed,        \* remote API: highest identifier acknowledged
    schema,           \* database file: TRUE once the tables exist
    users, username_history, messages, chats, user_activity,
    clock,            \* datetime.now()
    observed,         \* per user, the observations store_user_data committed
    latest,           \* per message key, the row last passed to the store
    replaced,         \* rows committed and later written over
    lost,             \* highest update whose storage write raised
    history,          \* rows view_user_intelligence is printing
    token_check,      \* the validate_token call of main(): what getMe met,
                      \* whether the call raised, what it returned
    results           \* what search_username is printing, and for which query

tables == <<users, username_history, messages, chats, user_activity>>
locals == <<last_update_id, ok, updates, update, writes>>
remote == <<feed, confirmed>>
vars == <<pc, exit, locals, remote, schema, tables, clock, observed,
          latest, replaced, lost, history, token_check, results>>

\* ------------------------------------------------------------ the store

\* CREATE TABLE IF NOT EXISTS: an existing table keeps its rows.
create_table_dropping(exists, rows, empty) == empty

create_table(exists, rows, empty) == IF exists THEN rows ELSE empty

\* DatabaseManager._init_database
init_database ==
    /\ schema' = TRUE
    /\ users' = create_table(schema, users, {})
    /\ username_history' = create_table(schema, username_history, <<>>)
    /\ messages' = create_table(schema, messages, {})
    /\ chats' = create_table(schema, chats, {})
    /\ user_activity' = create_table(schema, user_activity, {})

\* datetime.fromtimestamp(ts).isoformat(): a string, not the integer.
isoformat(ts) == <<"iso", ts>>

\* INSERT OR REPLACE under a key of message_id alone.
insert_or_replace_by_message_id(rows, row) ==
    { r \in rows : r.message_id # row.message_id } \cup {row}

\* INSERT OR IGNORE keeps the stored row of a key that is already present.
insert_or_ignore(rows, row) ==
    IF \E r \in rows : r.message_id = row.message_id /\ r.chat_id = row.chat_id
    THEN rows
    ELSE rows \cup {row}

\* INSERT OR REPLACE INTO messages, PRIMARY KEY (message_id, chat_id):
\* the row that conflicts on the key is deleted, then the new row inserted.
insert_or_replace(rows, row) ==
    { r \in rows : ~(r.message_id = row.message_id /\ r.chat_id = row.chat_id) }
      \cup {row}

\* DatabaseManager.store_message_data, the committed effect.
store_message_data(message_id, chat_id, user_id, username, first_name, message_text, message_date, media_type, forwarded_from, reply_to_message_id) ==
    LET row == [message_id |-> message_id, chat_id |-> chat_id,
                user_id |-> user_id, username |-> username,
                first_name |-> first_name, message_text |-> message_text,
                message_date |-> message_date, media_type |-> media_type,
                forwarded_from |-> forwarded_from,
                reply_to_message_id |-> reply_to_message_id]
    IN /\ messages' = insert_or_replace(messages, row)
       /\ latest' = { r \in latest : r.message_id # message_id \/ r.chat_id # chat_id }
                       \cup {row}
       /\ replaced' = replaced \cup
              { r \in latest : r.message_id = message_id /\ r.chat_id = chat_id
                                 /\ r # row }

\* upsertUser writing a history entry on every observation of a known user.
username_changed_always(stored, incoming) == TRUE

\* upsertUser: "if the incoming username differs from the stored
\* current_username".
username_changed(stored, incoming) == stored # incoming

\* A history entry that records the username just received.
incoming_username(old, user) == user.username

\* upsertUser: the appended entry captures "the previous value", read before
\* current_username is updated.
previous_username(old, user) == old.current_username

\* A row written anew on every observation, as INSERT OR REPLACE would.
replaced_user(old, user, now) ==
    [old EXCEPT !.current_username = user.username,
                !.first_seen = now, !.last_seen = now]

\* upsertUser on a seen user: "updates last_seen" and current_username;
\* first_seen is left as it is.
refreshed_user(old, user, now) ==
    [old EXCEPT !.current_username = user.username, !.last_seen = now]

\* DatabaseManager.store_user_data (upsertUser), the committed effect:
\* an unseen user_id inserts a row; a seen one refreshes last_seen and, when
\* the username differs, first appends a history entry capturing the
\* previous value and then updates current_username.
store_user_data(user) ==
    LET seen == { r \in users : r.user_id = user.id } IN
    IF seen = {}
    THEN /\ users' = users \cup
                {[user_id |-> user.id, first_name |-> user.first_name,
                  current_username |-> user.username,
                  first_seen |-> clock, last_seen |-> clock]}
         /\ UNCHANGED username_history
    ELSE LET old == CHOOSE r \in seen : TRUE IN
         /\ username_history' =
               IF username_changed(old.current_username, user.username)
               THEN Append(username_history,
                           [user_id |-> user.id,
                            username |-> previous_username(old, user),
                            changed_at |-> clock])
               ELSE username_history
         /\ users' = (users \ seen) \cup {refreshed_user(old, user, clock)}

\* ORDER BY changed_at ASC: oldest first.
RECURSIVE insert_asc(_, _)
insert_asc(sorted, row) ==
    IF sorted = <<>> THEN <<row>>
    ELSE IF row.changed_at <= Head(sorted).changed_at
         THEN <<row>> \o sorted
         ELSE <<Head(sorted)>> \o insert_asc(Tail(sorted), row)

\* Insertion of one row into a list ordered by changed_at, newest first.
RECURSIVE insert_desc(_, _)
insert_desc(sorted, row) ==
    IF sorted = <<>> THEN <<row>>
    ELSE IF row.changed_at >= Head(sorted).changed_at
         THEN <<row>> \o sorted
         ELSE <<Head(sorted)>> \o insert_desc(Tail(sorted), row)

RECURSIVE order_by_changed_at_desc(_)
order_by_changed_at_desc(rows) ==
    IF rows = <<>> THEN <<>>
    ELSE insert_desc(order_by_changed_at_desc(Tail(rows)), Head(rows))

of_user(user_id, row) == row.user_id = user_id

\* DatabaseManager.get_username_history: SELECT username, changed_at
\* FROM username_history WHERE user_id = ? ORDER BY changed_at DESC.
get_username_history(user_id) ==
    LET rows == SelectSeq(username_history, LAMBDA r : of_user(user_id, r))
        sorted == order_by_changed_at_desc(rows)
    IN [i \in 1..Len(sorted) |->
          [username |-> sorted[i].username, changed_at |-> sorted[i].changed_at]]

\* The characters of the usernames that occur.
chars(name) ==
    CASE name = "alice"  -> <<"a", "l", "i", "c", "e">>
      [] name = "alicia" -> <<"a", "l", "i", "c", "i", "a">>
      [] name = "bob"    -> <<"b", "o", "b">>

\* LIKE compares ASCII letters without regard to case.
fold(c) ==
    CASE c = "A" -> "a" [] c = "B" -> "b" [] c = "O" -> "o" [] OTHER -> c

\* SQLite's LIKE on a pattern and a non-NULL value: % matches any run of
\* characters, _ any one character.
RECURSIVE like(_, _)
like(pattern, value) ==
    IF pattern = <<>> THEN value = <<>>
    ELSE IF Head(pattern) = "%"
         THEN \/ like(Tail(pattern), value)
              \/ value # <<>> /\ like(pattern, Tail(value))
         ELSE /\ value # <<>>
              /\ Head(pattern) = "_" \/ fold(Head(pattern)) = fold(Head(value))
              /\ like(Tail(pattern), Tail(value))

\* column LIKE '%query%'; a NULL column matches nothing.
column_like(column, query) ==
    column # NoName /\ like(<<"%">> \o query \o <<"%">>, chars(column))

\* The username_history side of the LEFT JOIN for one users row: its
\* entries' usernames, or one NULL when it has none.
joined_usernames(user_id) ==
    LET rows == SelectSeq(username_history, LAMBDA r : of_user(user_id, r))
    IN IF rows = <<>> THEN {NoName}
       ELSE { rows[i].username : i \in 1..Len(rows) }

selected(u) ==
    [user_id |-> u.user_id, first_name |-> u.first_name,
     current_username |-> u.current_username]

\* A search of the users table alone, without the join.
search_usernames_current_only(username_query) ==
    { selected(u) : u \in { x \in users : column_like(x.current_username, username_query) } }

\* DatabaseManager.search_usernames, lines 570-575: SELECT DISTINCT
\* u.user_id, u.first_name, u.current_username FROM users u LEFT JOIN
\* username_history uh ... WHERE u.current_username LIKE ? OR uh.username
\* LIKE ?. The rows come in no stated order.
search_usernames(username_query) ==
    { selected(u) : u \in { x \in users : \E h \in joined_usernames(x.user_id) : column_like(x.current_username, username_query) \/ column_like(h, username_query) } }

\* --------------------------------------------------------- the normalizer

\* The guard without its chat_id member.
all_present_but_chat(message) ==
    /\ message.message_id # NoId
    /\ message.from.id # NoId

\* process_message, line 430: all([message_id, chat_id, user_id]).
all_present(message) ==
    /\ message.message_id # NoId
    /\ message.chat.id # NoId
    /\ message.from.id # NoId

\* The exception a subscript raises on a missing key, as a value.
KeyError == -1

\* message['forward_from']['id']: subscripts instead of .get.
subscript_nested(present, inner) ==
    IF present /\ inner # NoId THEN inner ELSE KeyError

\* message.get('forward_from', {}).get('id'), lines 457-458: None when the
\* key is missing (the default {} has no 'id') and when the object lacks
\* the inner key.
get_nested(present, inner) ==
    LET outer == IF present THEN inner ELSE NoId IN outer

\* Three independent tests instead of if/elif: the last match wins.
media_type_of_last_match(message) ==
    IF message.document THEN "document"
    ELSE IF message.video THEN "video"
    ELSE IF message.photo THEN "photo"
    ELSE "NULL"

\* process_message, lines 438-444: first match of photo, video, document.
media_type_of(message) ==
    IF message.photo THEN "photo"
    ELSE IF message.video THEN "video"
    ELSE IF message.document THEN "document"
    ELSE "NULL"

\* What the operator types at "Enter username".
Queries == { <<"a", "l">>, <<"B", "_", "b">>, <<>> }

NoSearch == [called |-> FALSE, query |-> <<>>, rows |-> {}]

\* ------------------------------------------------------------ the client

\* What a getMe request can meet: whether a response arrives at all, whether
\* its body parses as JSON, the envelope's ok and whether it has a result.
GetMeResponse(arrives, json, isok, result) ==
    [arrives |-> arrives, json |-> json, ok |-> isok, result |-> result]

Identity        == GetMeResponse(TRUE, TRUE, TRUE, TRUE)
OkWithoutResult == GetMeResponse(TRUE, TRUE, TRUE, FALSE)
NotOk           == GetMeResponse(TRUE, TRUE, FALSE, FALSE)
Malformed       == GetMeResponse(TRUE, FALSE, FALSE, FALSE)
NetworkError    == GetMeResponse(FALSE, FALSE, FALSE, FALSE)

GetMeResponses == {Identity, OkWithoutResult, NotOk, Malformed, NetworkError}

Returned(success) == [raised |-> FALSE, success |-> success]
Raised == [raised |-> TRUE, success |-> FALSE]

\* api_call, lines 406-414, the body of the try: session.get raises without
\* a response, response.json() raises on a body that is not JSON, and
\* data['result'] raises KeyError on an ok envelope without result.
api_call_try(response) ==
    IF ~response.arrives THEN Raised
    ELSE IF ~response.json THEN Raised
    ELSE IF response.ok
         THEN IF response.result THEN Returned(TRUE) ELSE Raised
         ELSE Returned(FALSE)

\* api_call without its except clause.
api_call_uncaught(response) == api_call_try(response)

\* api_call, lines 404-416: "except Exception" turns every exception of the
\* body into {'success': False, ...}.
api_call(response) ==
    IF api_call_try(response).raised
    THEN Returned(FALSE)
    ELSE api_call_try(response)

\* validate_token, lines 418-421: result.get('success', False).
validate_token(response) ==
    LET result == api_call(response) IN
    [called |-> TRUE, response |-> response, raised |-> result.raised,
     returned |-> ~result.raised /\ result.success]

NotChecked ==
    [called |-> FALSE, response |-> NetworkError, raised |-> FALSE,
     returned |-> FALSE]

\* --------------------------------------------------------------- control

\* Before the first launch: no database file; the remote API holds the
\* updates of one of the given bodies each.
InitFeeds(feeds) ==
    /\ pc = "boot"
    /\ exit = "none"
    /\ last_update_id = 0
    /\ ok = FALSE
    /\ updates = <<>>
    /\ update = 0
    /\ writes = {}
    /\ feed \in feeds
    /\ confirmed = 0
    /\ schema = FALSE
    /\ users = {}
    /\ username_history = <<>>
    /\ messages = {}
    /\ chats = {}
    /\ user_activity = {}
    /\ clock = 1
    /\ observed = [u \in Users |-> <<>>]
    /\ latest = {}
    /\ replaced = {}
    /\ lost = 0
    /\ history = <<>>
    /\ token_check = NotChecked
    /\ results = NoSearch

\* Every feed of MaxUpdates updates drawn from the given bodies.
InitWith(bodies) == InitFeeds([UpdateIds -> bodies])

Init == InitWith(UpdateBodies)

\* main(): UserTegOSINT(token, folders) builds the DatabaseManager (line
\* 898); validate_token decides between sys.exit(1) and the menu loop
\* (901-903). The second getMe of line 907 only prints.
main ==
    /\ pc = "boot"
    /\ init_database
    /\ \E response \in GetMeResponses :
          /\ token_check' = validate_token(response)
          /\ pc' = IF token_check'.returned THEN "menu" ELSE "boot"
    /\ exit' = "none"
    /\ UNCHANGED <<locals, remote, clock, observed, latest, replaced, lost,
                   history, results>>

\* Menu choice 11, or Ctrl+C at the prompt: the process ends.
quit ==
    /\ pc = "menu"
    /\ pc' = "boot"
    /\ history' = <<>>
    /\ last_update_id' = 0
    /\ token_check' = NotChecked
    /\ results' = NoSearch
    /\ UNCHANGED <<exit, ok, updates, update, writes, remote, schema, tables,
                   clock, observed, latest, replaced, lost>>

\* Menu choice 1, view_user_intelligence: a read of username_history.
view_user_intelligence ==
    /\ pc = "menu"
    /\ \E uid \in Users : history' = get_username_history(uid)
    /\ results' = NoSearch
    /\ UNCHANGED <<pc, exit, locals, remote, schema, tables, clock, observed,
                   latest, replaced, lost, token_check>>

\* Menu choice 5: start_monitoring up to "last_update_id = 0".
\* Menu choice 2, search_username (lines 772-782): a read of users and
\* username_history.
search_username ==
    /\ pc = "menu"
    /\ \E username \in Queries :
          results' = [called |-> TRUE, query |-> username,
                      rows |-> search_usernames(username)]
    /\ history' = <<>>
    /\ UNCHANGED <<pc, exit, locals, remote, schema, tables, clock, observed,
                   latest, replaced, lost, token_check>>

start_monitoring ==
    /\ pc = "menu"
    /\ last_update_id' = 0
    /\ history' = <<>>
    /\ pc' = "poll"
    /\ results' = NoSearch
    /\ UNCHANGED <<exit, ok, updates, update, writes, remote, schema, tables,
                   clock, observed, latest, replaced, lost, token_check>>

\* A request that asks from the cursor itself, not from the one after it.
offset_at_cursor == last_update_id

\* The request of lines 659-662 carries offset = last_update_id + 1.
offset == last_update_id + 1

\* An exception that start_monitoring does not catch unwinds to the
\* "except Exception" of main's menu loop.
raise(error) ==
    /\ pc' = "failed"
    /\ exit' = error

\* session.get raises (connection error, timeout).
get_updates_network_error ==
    /\ pc = "poll"
    /\ raise("network")
    /\ UNCHANGED <<locals, remote, schema, tables, clock, observed, latest,
                   replaced, lost, history, token_check, results>>

\* response.json() raises on a body that is not JSON.
get_updates_malformed ==
    /\ pc = "poll"
    /\ raise("malformed")
    /\ UNCHANGED <<locals, remote, schema, tables, clock, observed, latest,
                   replaced, lost, history, token_check, results>>

\* A failed cycle that moves the cursor past the update it asked for.
get_updates_not_ok_advancing ==
    /\ pc = "poll"
    /\ ok' = FALSE
    /\ pc' = "sleep"
    /\ last_update_id' = IF last_update_id < Len(feed)
                         THEN last_update_id + 1 ELSE last_update_id
    /\ UNCHANGED <<exit, updates, update, writes, remote, schema, tables,
                   clock, observed, latest, replaced, lost, history, token_check, results>>

\* data.get('ok') is false: the if of line 665 is skipped.
get_updates_not_ok ==
    /\ pc = "poll"
    /\ ok' = FALSE
    /\ pc' = "sleep"
    /\ UNCHANGED <<exit, last_update_id, updates, update, writes, remote,
                   schema, tables, clock, observed, latest, replaced, lost,
                   history, token_check, results>>

\* data.get('ok') is true: the remote API acknowledges everything below the
\* offset and answers with a run of the pending updates, oldest first.
get_updates_ok ==
    /\ pc = "poll"
    /\ LET lo == Max(offset, confirmed + 1) IN
       \E hi \in (lo - 1)..Len(feed) :
          updates' = [i \in 1..(hi - lo + 1) |-> lo + i - 1]
    /\ confirmed' = Max(confirmed, offset - 1)
    /\ ok' = TRUE
    /\ pc' = "for"
    /\ UNCHANGED <<exit, last_update_id, update, writes, feed, schema, tables,
                   clock, observed, latest, replaced, lost, history, token_check, results>>

\* A loop that can leave the response before its last update.
for_done_early ==
    /\ pc = "for"
    /\ pc' = "sleep"
    /\ UNCHANGED <<exit, locals, remote, schema, tables, clock, observed,
                   latest, replaced, lost, history, token_check, results>>

\* The for loop is exhausted: control reaches time.sleep(0.1).
for_done ==
    /\ pc = "for"
    /\ updates = <<>>
    /\ pc' = "sleep"
    /\ UNCHANGED <<exit, locals, remote, schema, tables, clock, observed,
                   latest, replaced, lost, history, token_check, results>>

\* A loop that walks the response from its newest update backwards.
for_next_newest_first ==
    /\ pc = "for"
    /\ updates # <<>>
    /\ update' = updates[Len(updates)]
    /\ updates' = SubSeq(updates, 1, Len(updates) - 1)
    /\ last_update_id' = updates[Len(updates)]
    /\ writes' = {}
    /\ pc' = "dispatch"
    /\ UNCHANGED <<exit, ok, remote, schema, tables, clock, observed, latest,
                   replaced, lost, history, token_check, results>>

\* Line 669: last_update_id = update['update_id'].
for_next ==
    /\ pc = "for"
    /\ updates # <<>>
    /\ update' = Head(updates)
    /\ updates' = Tail(updates)
    /\ last_update_id' = Head(updates)
    /\ writes' = {}
    /\ pc' = "dispatch"
    /\ UNCHANGED <<exit, ok, remote, schema, tables, clock, observed, latest,
                   replaced, lost, history, token_check, results>>

\* Line 671 with no 'message' key, or process_message returning at line 431.
skip_update ==
    /\ pc = "dispatch"
    /\ \/ ~feed[update].has_message
       \/ ~all_present(feed[update].message)
    /\ pc' = "for"
    /\ UNCHANGED <<exit, locals, remote, schema, tables, clock, observed,
                   latest, replaced, lost, history, token_check, results>>

\* process_message, line 433: store_user_data commits.
process_message_user ==
    /\ pc = "dispatch"
    /\ feed[update].has_message
    /\ all_present(feed[update].message)
    /\ clock <= MaxUserWrites
    /\ LET user == feed[update].message.from IN
       /\ store_user_data(user)
       /\ observed' = [observed EXCEPT ![user.id] =
                        Append(@, [username |-> user.username, at |-> clock])]
    /\ clock' = clock + 1
    /\ writes' = writes \cup {"user"}
    /\ pc' = "user_stored"
    /\ UNCHANGED <<exit, last_update_id, ok, updates, update, remote, schema,
                   messages, chats, user_activity, latest, replaced, lost,
                   history, token_check, results>>

\* process_message, line 433: store_user_data raises a storage error.
\* store_user_data wrapped in a try whose except passes: the failure is
\* swallowed and process_message goes on to the message.
process_message_user_fails_swallowed ==
    /\ pc = "dispatch"
    /\ feed[update].has_message
    /\ all_present(feed[update].message)
    /\ pc' = "user_stored"
    /\ UNCHANGED <<exit, locals, remote, schema, tables, clock, observed,
                   latest, replaced, lost, history, token_check, results>>

process_message_user_fails ==
    /\ pc = "dispatch"
    /\ feed[update].has_message
    /\ all_present(feed[update].message)
    /\ lost' = Max(lost, update)
    /\ raise("storage")
    /\ UNCHANGED <<locals, remote, schema, tables, clock, observed, latest,
                   replaced, history, token_check, results>>

\* process_message, lines 435-460: the arguments are evaluated, an exception
\* raised by that would leave the function, and store_message_data commits.
process_message_message ==
    /\ pc = "user_stored"
    /\ LET message == feed[update].message
           forwarded_from == get_nested(message.forward_from.present, message.forward_from.id)
           reply_to_message_id == get_nested(message.reply_to_message.present, message.reply_to_message.message_id)
       IN IF KeyError \in {forwarded_from, reply_to_message_id}
          THEN /\ raise("normalizer")
               /\ UNCHANGED <<messages, latest, replaced, writes>>
          ELSE /\ store_message_data(message.message_id, message.chat.id,
                                     message.from.id, message.from.username,
                                     message.from.first_name, message.text,
                                     isoformat(message.date),
                                     media_type_of(message), forwarded_from,
                                     reply_to_message_id)
               /\ writes' = writes \cup {"message"}
               /\ pc' = "for"
               /\ UNCHANGED exit
    /\ UNCHANGED <<last_update_id, ok, updates, update, remote, schema,
                   users, username_history, chats, user_activity, clock,
                   observed, lost, history, token_check, results>>

\* process_message, line 447: store_message_data raises a storage error.
process_message_message_fails ==
    /\ pc = "user_stored"
    /\ lost' = Max(lost, update)
    /\ raise("storage")
    /\ UNCHANGED <<locals, remote, schema, tables, clock, observed, latest,
                   replaced, history, token_check, results>>

\* Line 674: time.sleep(0.1), then the next iteration of "while True".
\* A loop whose cursor is initialised inside "while True".
sleep_resetting ==
    /\ pc = "sleep"
    /\ pc' = "poll"
    /\ last_update_id' = 0
    /\ UNCHANGED <<exit, ok, updates, update, writes, remote, schema, tables,
                   clock, observed, latest, replaced, lost, history,
                   token_check, results>>

sleep ==
    /\ pc = "sleep"
    /\ pc' = "poll"
    /\ UNCHANGED <<exit, locals, remote, schema, tables, clock, observed,
                   latest, replaced, lost, history, token_check, results>>

Monitoring == {"poll", "for", "dispatch", "user_stored", "sleep"}

\* Ctrl+C while start_monitoring runs: KeyboardInterrupt is raised at the
\* current instruction and caught at line 676.
keyboard_interrupt ==
    /\ pc \in Monitoring
    /\ pc' = "stopped"
    /\ exit' = "interrupt"
    /\ UNCHANGED <<locals, remote, schema, tables, clock, observed, latest,
                   replaced, lost, history, token_check, results>>

\* "Monitoring stopped" (line 677) or main's "Error: ..." (line 932) has been
\* printed: the frame of start_monitoring is gone and the menu is shown.
\* last_update_id keeps the value the run ended with until the next call
\* executes line 655 or the process ends, so that the model can tell whether
\* a later run starts from it.
back_to_menu ==
    /\ pc \in {"stopped", "failed"}
    /\ pc' = "menu"
    /\ exit' = "none"
    /\ ok' = FALSE
    /\ updates' = <<>>
    /\ update' = 0
    /\ writes' = {}
    /\ UNCHANGED <<last_update_id, remote, schema, tables, clock, observed,
                   latest, replaced, lost, history, token_check, results>>

Next ==
    \/ main
    \/ quit
    \/ view_user_intelligence
    \/ search_username
    \/ start_monitoring
    \/ get_updates_network_error
    \/ get_updates_malformed
    \/ get_updates_not_ok
    \/ get_updates_ok
    \/ for_done
    \/ for_next
    \/ skip_update
    \/ process_message_user
    \/ process_message_user_fails
    \/ process_message_message
    \/ process_message_message_fails
    \/ sleep
    \/ keyboard_interrupt
    \/ back_to_menu

Spec == Init /\ [][Next]_vars

\* The pipeline fed with updates that are mostly skipped.
InitSkip == InitWith(SkipBodies)

SpecSkip == InitSkip /\ [][Next]_vars

InitScenario == InitFeeds({ScenarioFeed})

SpecScenario == InitScenario /\ [][Next]_vars

InitChats == InitWith(ChatBodies)

SpecChats == InitChats /\ [][Next]_vars

InitNames == InitWith(NameBodies)

SpecNames == InitNames /\ [][Next]_vars

InitLive == InitWith(LiveBodies)

\* start_monitoring runs on one thread: once control stands at a statement
\* of the loop body, the statement is executed unless an exception or the
\* interrupt takes control away first.
Fairness ==
    /\ WF_vars(for_next)
    /\ WF_vars(skip_update)
    /\ WF_vars(process_message_user)
    /\ WF_vars(process_message_message)

SpecLive == InitLive /\ [][Next]_vars /\ Fairness

InitFields == InitFeeds(FeedsOf(MediaMessages \cup OptionalMessages))

SpecFields == InitFields /\ [][Next]_vars

\* ---------------------------------------------------------------- claims

same_key(a, b) == a.message_id = b.message_id /\ a.chat_id = b.chat_id

\* C1: idempotent message upsert: however often store_message_data was
\* applied to a (message_id, chat_id), the messages table holds exactly one
\* row for that key, and it is the row of the latest write.
C1_IdempotentUpsert ==
    \A w \in latest : { r \in messages : same_key(r, w) } = {w}

\* A key written twice with different field values; the second is stored.
C1_Witness ==
    \E old \in replaced, new \in latest :
        /\ same_key(old, new)
        /\ old # new
        /\ new \in messages
        /\ old \notin messages

\* C2: at-most-once dispatch: the offset equals the identifier of the update
\* in dispatch, and an update whose storage write failed after that is not
\* asked for by any later getUpdates request.
C2_AtMostOnceDispatch ==
    /\ pc \in {"dispatch", "user_stored"} => last_update_id = update
    /\ (pc = "poll" /\ lost # 0) => offset > lost

\* C3: a transport-level failure of a poll cycle never terminates the
\* polling loop.
C3_TransportFailureKeepsPolling ==
    exit \notin {"network", "malformed"}

\* A poll cycle ending in a transport-level failure: the request raised, the
\* body was not JSON, or the ok flag was false.
failed_poll_step ==
    /\ pc = "poll"
    /\ \/ pc' = "sleep"
       \/ pc' = "failed"

\* C4: a poll cycle that ends in a transport-level failure leaves the offset
\* cursor unchanged and dispatches no update.
C4_FailedPollFrame ==
    [][failed_poll_step =>
          /\ last_update_id' = last_update_id
          /\ update' = update
          /\ writes' = writes
          /\ tables' = tables]_vars

\* A failed cycle after the cursor had advanced and a message was stored.
C4_Witness ==
    /\ pc = "sleep"
    /\ ~ok
    /\ last_update_id > 0
    /\ messages # {}

\* C5: a storage failure on one record is non-fatal: the polling loop does
\* not stop and the rest of the batch is still dispatched.
C5_StorageFailureNonFatal ==
    exit # "storage"

\* The entries of username_history that belong to one user, oldest first.
entries_of(user_id) ==
    SelectSeq(username_history, LAMBDA r : of_user(user_id, r))

\* The step in which store_user_data commits.
user_write_step == pc = "dispatch" /\ pc' = "user_stored"

\* C6: username history is written exactly on change: the user write appends
\* one entry for the user if and only if the observed username differs from
\* the stored current_username; nothing else appends.
C6_HistoryExactlyOnChange ==
    [][/\ user_write_step =>
            LET user == feed[update].message.from
                differs == \E r \in users : /\ r.user_id = user.id
                                            /\ r.current_username # user.username
            IN /\ differs =>
                    /\ Len(username_history') = Len(username_history) + 1
                    /\ username_history'[Len(username_history')].user_id = user.id
               /\ ~differs => username_history' = username_history
       /\ ~user_write_step => Len(username_history') <= Len(username_history)
      ]_vars

\* A user seen twice under one username (nothing appended) and then with
\* the username added or removed (one entry appended).
C6_Witness ==
    /\ pc = "user_stored"
    /\ \E u \in Users :
          /\ Len(observed[u]) = 3
          /\ observed[u][1].username = observed[u][2].username
          /\ observed[u][2].username # observed[u][3].username
          /\ NoName \in {observed[u][2].username, observed[u][3].username}
          /\ Len(entries_of(u)) = 1

usernames_seen(user_id) ==
    [i \in 1..Len(observed[user_id]) |-> observed[user_id][i].username]

current_username(user_id) ==
    (CHOOSE r \in users : r.user_id = user_id).current_username

C8_HistoryAppendOnly ==
    [][/\ Len(username_history') >= Len(username_history)
       /\ \A i \in 1..Len(username_history) :
             username_history'[i] = username_history[i]]_vars

\* Entries survive a query, a restart of the process and a later run.
C8_Witness ==
    /\ Len(username_history) = 2
    /\ Len(history) = 2
    /\ pc = "menu"

\* An update with no message, or whose message lacks one of the triad.
skipped(u) ==
    \/ ~feed[u].has_message
    \/ feed[u].message.message_id = NoId
    \/ feed[u].message.chat.id = NoId
    \/ feed[u].message.from.id = NoId

\* C9: an update without a message, or whose message lacks message_id,
\* chat.id or the sender id, writes to none of the five tables.
C9_SkipRule ==
    [][(pc = "dispatch" /\ skipped(update)) =>
          /\ tables' = tables
          /\ writes' = {} /\ writes = {}
          /\ pc' \in {"for", "stopped", "dispatch"}]_vars

\* A message without chat.id was skipped after another was stored.
C9_Witness ==
    /\ pc = "for"
    /\ update # 0
    /\ feed[update].has_message
    /\ feed[update].message.chat.id = NoId
    /\ feed[update].message.message_id # NoId
    /\ feed[update].message.from.id # NoId
    /\ writes = {}
    /\ messages # {}

\* C10: in the Stopped state reached by the interrupt the in-flight cycle
\* has completed and no update is half-applied.
C10_CleanCancellation ==
    pc = "stopped" =>
        /\ updates = <<>>
        /\ writes \in {{}, {"user", "message"}}

\* C11: within a monitoring run the request in flight asks for the update
\* right after the last one the run consumed (update; 0 when none yet), and
\* the response it gets holds only updates after that one.
C11_RequestsAfterCursor ==
    /\ pc = "poll" => offset = update + 1
    /\ pc \in {"for", "dispatch", "user_stored"} =>
           \A i \in 1..Len(updates) : updates[i] > update

\* A second request of one run, made after update 1 was consumed, has been
\* answered with the update that follows it.
C11_Witness ==
    /\ pc = "for"
    /\ ok
    /\ update >= 1
    /\ confirmed = update
    /\ updates # <<>>
    /\ Head(updates) = update + 1

\* C12: the updates of one response are taken one at a time in the order
\* received. A step that starts on an update is taken only when the one
\* before is finished (nothing or both rows written), takes the head of
\* what is left, and sets the cursor to its id while the store is still
\* untouched; the store is written only for the update the cursor is on.
C12_SequentialInOrder ==
    [][/\ (update' # update /\ pc' = "dispatch") =>
             /\ pc = "for"
             /\ writes \in {{}, {"user", "message"}}
             /\ update' = Head(updates)
             /\ updates' = Tail(updates)
             /\ last_update_id' = update'
             /\ writes' = {}
             /\ tables' = tables
       /\ (tables' # tables) =>
             /\ pc \in {"dispatch", "user_stored"}
             /\ last_update_id = update
             /\ update' = update
             /\ updates' = updates]_vars

\* Updates 1 and 2 came in one response; 1 has been stored and 2 is about
\* to be dispatched with the cursor already on it.
C12_Witness ==
    /\ pc = "dispatch"
    /\ update = 2
    /\ last_update_id = 2
    /\ confirmed = 0
    /\ writes = {}
    /\ updates = <<>>
    /\ messages # {}

\* C13: the cursor lives as long as the process: no step lowers it but the
\* end of the process, so a run started from the menu goes on from the
\* value the run before it ended with.
C13_CursorKeptAcrossRuns ==
    [][last_update_id' < last_update_id => pc' = "boot"]_vars

activity_of(user_id, chat_id) ==
    { a \in user_activity : a.user_id = user_id /\ a.chat_id = chat_id }

\* C14: a (user, chat) pair with a stored message has exactly one
\* user_activity row; its message_count is at least 1 and at most the number
\* of times the user was written (exactly 1 after the user's first message),
\* and its first_seen is not after its last_seen.
C14_ActivityAggregation ==
    \A m \in messages :
        /\ Cardinality(activity_of(m.user_id, m.chat_id)) = 1
        /\ \A a \in activity_of(m.user_id, m.chat_id) :
               /\ a.message_count >= 1
               /\ a.message_count <= Len(observed[m.user_id])
               /\ a.first_seen <= a.last_seen

\* C15: a users row is never lost; its first_seen is the time of the
\* user's first observation and no step changes it; its last_seen never
\* decreases, and each later write of that user moves it forward.
C15_SeenTimestamps ==
    [][/\ \A r \in users : \E n \in users' :
             /\ n.user_id = r.user_id
             /\ n.first_seen = r.first_seen
             /\ n.last_seen >= r.last_seen
             /\ (user_write_step /\ feed[update].message.from.id = r.user_id)
                    => n.last_seen > r.last_seen
       /\ \A n \in users' :
             /\ n.first_seen = observed'[n.user_id][1].at
             /\ n.first_seen <= n.last_seen]_vars

\* A user observed a second time: the row keeps the time of the first
\* observation and carries the time of the second.
C15_Witness ==
    /\ pc = "user_stored"
    /\ \E r \in users :
          /\ Len(observed[r.user_id]) >= 2
          /\ r.first_seen = observed[r.user_id][1].at
          /\ r.last_seen = observed[r.user_id][Len(observed[r.user_id])].at
          /\ r.first_seen < r.last_seen
          /\ feed[update].message.from.id = r.user_id

\* The three messages of the scenario have each been ingested once, whole.
scenario_ingested ==
    /\ feed = ScenarioFeed
    /\ Len(observed[1]) = 2
    /\ Len(observed[2]) = 1
    /\ { m.message_id : m \in messages } = {1, 2, 3}

\* C16: after the scenario the store holds 2 users rows, 1 username_history
\* row recording alice for user 1, 3 messages rows and 2 user_activity rows:
\* message_count 2 for (user 1, chat 100) and 1 for (user 2, chat 100).
C16_EndToEnd ==
    scenario_ingested =>
        /\ Cardinality(users) = 2
        /\ Len(username_history) = 1
        /\ username_history[1].user_id = 1
        /\ username_history[1].username = "alice"
        /\ Cardinality(messages) = 3
        /\ Cardinality(user_activity) = 2
        /\ \E a \in activity_of(1, 100) : a.message_count = 2
        /\ \E a \in activity_of(2, 100) : a.message_count = 1

\* C17: a user write that brings another username than the stored one
\* appends one entry for that user holding the username that was stored
\* before the write, stamped with the time of the write, and leaves the
\* incoming username as current_username.
C17_HistoryCapturesPrevious ==
    [][\A r \in users :
          (/\ user_write_step
           /\ r.user_id = feed[update].message.from.id
           /\ r.current_username # feed[update].message.from.username) =>
              /\ Len(username_history') = Len(username_history) + 1
              /\ username_history'[Len(username_history')] =
                     [user_id |-> r.user_id,
                      username |-> r.current_username,
                      changed_at |-> clock]
              /\ \E n \in users' :
                     /\ n.user_id = r.user_id
                     /\ n.current_username = feed[update].message.from.username]_vars

\* A rename from one username to another has just been written: the newest
\* entry holds the old username and the row holds the new one.
C17_Witness ==
    /\ pc = "user_stored"
    /\ username_history # <<>>
    /\ LET e == username_history[Len(username_history)] IN
          /\ e.username \in Usernames
          /\ e.user_id = feed[update].message.from.id
          /\ e.changed_at = clock - 1
          /\ feed[update].message.from.username \in Usernames \ {e.username}
          /\ \E n \in users :
                 /\ n.user_id = e.user_id
                 /\ n.current_username = feed[update].message.from.username

\* C18: a message is identified by (message_id, chat_id). A stored row
\* leaves the table only in a message write whose message_id and chat_id
\* both equal the row's, and is then followed by the row written; two
\* messages written with one message_id in different chats are both stored.
C18_MessageIdentity ==
    [][/\ \A r \in messages : r \notin messages' =>
             /\ pc = "user_stored"
             /\ r.message_id = feed[update].message.message_id
             /\ r.chat_id = feed[update].message.chat.id
             /\ \E n \in messages' : same_key(n, r)
       /\ \A a \in latest', b \in latest' :
             (a.message_id = b.message_id /\ a.chat_id # b.chat_id) =>
                 (a \in messages' /\ b \in messages')]_vars

\* message_id 1 was written in chat 100 and in chat 200, the second write
\* just now: both rows are in the table.
C18_Witness ==
    /\ pc = "for"
    /\ writes = {"user", "message"}
    /\ \E a \in messages, b \in messages :
          /\ a.message_id = b.message_id
          /\ a.chat_id = 100
          /\ b.chat_id = 200
          /\ {a, b} \subseteq latest
    /\ Cardinality(messages) = 2

\* C19: a skipped update is not retried: once the cursor has moved beyond
\* an update that is skipped, no request issued from then on asks for it.
C19_SkippedNotRetried ==
    [][\A u \in DOMAIN feed :
          (skipped(u) /\ u < last_update_id /\ pc' = "poll") =>
              last_update_id' + 1 > u]_vars

chat_rows(chat_id) == { c \in chats : c.chat_id = chat_id }

\* C20: for every stored message the chats table has exactly one row of the
\* message's chat, last updated no earlier than the sender was first seen.
C20_ChatUpserted ==
    \A m \in messages :
        /\ Cardinality(chat_rows(m.chat_id)) = 1
        /\ \A c \in chat_rows(m.chat_id) :
               c.last_updated >= observed[m.user_id][1].at

\* C21: the stored media_type is photo for a message that carries photo,
\* whatever else it carries; video for one that carries video but no photo;
\* document for one that carries document only; none (NULL) for one that
\* carries none of the three.
C21_MediaFirstMatch ==
    \A r \in messages :
        LET m == feed[1].message IN
        /\ m.photo => r.media_type = "photo"
        /\ (~m.photo /\ m.video) => r.media_type = "video"
        /\ (~m.photo /\ ~m.video /\ m.document) => r.media_type = "document"
        /\ (~m.photo /\ ~m.video /\ ~m.document) => r.media_type = "NULL"

\* A message carrying both photo and document has been stored as photo.
C21_Witness ==
    /\ feed[1].message.photo
    /\ ~feed[1].message.video
    /\ feed[1].message.document
    /\ \E r \in messages : r.media_type = "photo"
    /\ pc = "for"
    /\ writes = {"user", "message"}

\* C22: validate_token never raises and returns a boolean, TRUE exactly
\* when getMe was answered with an ok envelope holding the identity; the
\* menu is reached only after it returned TRUE.
C22_ValidateTokenTotal ==
    /\ token_check.called =>
          /\ ~token_check.raised
          /\ token_check.returned \in BOOLEAN
          /\ token_check.returned <=> token_check.response = Identity
    /\ pc # "boot" => (token_check.called /\ token_check.returned)

\* getMe met a network error at a launch over an existing database:
\* validate_token returned FALSE and the process ended.
C22_Witness ==
    /\ pc = "boot"
    /\ token_check.called
    /\ ~token_check.response.arrives
    /\ ~token_check.raised
    /\ ~token_check.returned
    /\ messages # {}

\* query occurs in name, character for character.
substring(query, name) ==
    /\ name # NoName
    /\ \E i \in 0..(Len(chars(name)) - Len(query)) :
          SubSeq(chars(name), i + 1, i + Len(query)) = query

\* C23: the rows search_username shows hold every user whose current
\* username, or any username in that user's history, contains the query;
\* every row shown is a users row with its current username, also when only
\* a historical username matched.
C23_SearchCorrect ==
    results.called =>
        /\ \A u \in users :
              (\/ substring(results.query, u.current_username)
               \/ \E i \in 1..Len(username_history) :
                     /\ username_history[i].user_id = u.user_id
                     /\ substring(results.query, username_history[i].username))
              => [user_id |-> u.user_id, first_name |-> u.first_name,
                  current_username |-> u.current_username] \in results.rows
        /\ \A r \in results.rows : \E u \in users :
              /\ r.user_id = u.user_id
              /\ r.current_username = u.current_username

\* A search for "al" when user 1 is now bob and was alice before: the row
\* shown is user 1 as bob.
C23_Witness ==
    /\ results.called
    /\ results.query = <<"a", "l">>
    /\ \E u \in users : u.user_id = 1 /\ u.current_username = "bob"
    /\ \E i \in 1..Len(username_history) :
          username_history[i].user_id = 1 /\ username_history[i].username = "alice"
    /\ \E r \in results.rows : r.user_id = 1 /\ r.current_username = "bob"

no_identifier(present, inner) == ~present \/ inner = NoId

\* C24: normalization never raises, and the row of a message whose forward
\* origin (reply target) is missing, or present without its identifier, is
\* written with forwarded_from (reply_to_message_id) null; an identifier
\* that is there is stored as it is.
C24_OptionalFieldsNull ==
    /\ exit # "normalizer"
    /\ \A r \in messages :
          LET m == feed[1].message IN
          /\ no_identifier(m.forward_from.present, m.forward_from.id)
                => r.forwarded_from = NoId
          /\ no_identifier(m.reply_to_message.present, m.reply_to_message.message_id)
                => r.reply_to_message_id = NoId
          /\ ~no_identifier(m.forward_from.present, m.forward_from.id)
                => r.forwarded_from = m.forward_from.id
          /\ ~no_identifier(m.reply_to_message.present, m.reply_to_message.message_id)
                => r.reply_to_message_id = m.reply_to_message.message_id

\* A message without the forward_from key and with a reply_to_message object
\* that has no message_id has been written, both columns null.
C24_Witness ==
    /\ pc = "for"
    /\ writes = {"user", "message"}
    /\ ~feed[1].message.forward_from.present
    /\ feed[1].message.reply_to_message.present
    /\ feed[1].message.reply_to_message.message_id = NoId
    /\ \E r \in messages :
          r.forwarded_from = NoId /\ r.reply_to_message_id = NoId

\* C25: from one step of a monitoring run to the next the cursor does not
\* decrease, so it is never below a value it held earlier in the run.
C25_CursorMonotone ==
    [][(pc \in Monitoring /\ pc' \in Monitoring) =>
          last_update_id' >= last_update_id]_vars

\* Two poll cycles of one run: the cursor went to 1 in the first and to 2
\* in the second.
C25_Witness ==
    /\ pc = "sleep"
    /\ ok
    /\ last_update_id = 2
    /\ confirmed = 1

\* C26: every messages row has a users row for its user_id; a message is
\* written only after the user write of the same dispatch has committed;
\* and the step in which the user write fails writes no message and ends
\* the dispatch.
C26_SenderBeforeMessage ==
    [][/\ \A m \in messages' : \E u \in users' : u.user_id = m.user_id
       /\ messages' # messages =>
             /\ pc = "user_stored"
             /\ "user" \in writes
             /\ \E u \in users : u.user_id = feed[update].message.from.id
       /\ (pc = "dispatch" /\ pc' = "failed") =>
             /\ messages' = messages
             /\ users' = users
             /\ writes' = {}]_vars

\* The user write for a message of user 2 failed after a message of user 1
\* was stored: there is neither a users row nor a messages row of user 2.
C26_Witness ==
    /\ pc = "failed"
    /\ exit = "storage"
    /\ writes = {}
    /\ feed[update].message.from.id = 2
    /\ \A u \in users : u.user_id # 2
    /\ \A m \in messages : m.user_id # 2
    /\ messages # {}

\* No transport failure, storage failure or stop signal: no call of
\* start_monitoring has ended, and the store is not refusing the write of
\* the update in dispatch.
NoFailure ==
    /\ pc \notin {"failed", "stopped"}
    /\ ~(pc = "dispatch" /\ ~skipped(update) /\ clock > MaxUserWrites)

\* Update u is in a successful response and has not been taken yet.
pending(u) ==
    pc = "for" /\ ok /\ \E i \in 1..Len(updates) : updates[i] = u

\* The dispatch of update u has returned: it was skipped, or its user and
\* message writes are done and its row is in the messages table.
ingested(u) ==
    /\ pc = "for"
    /\ update = u
    /\ \/ skipped(u) /\ writes = {}
       \/ /\ ~skipped(u)
          /\ writes = {"user", "message"}
          /\ \E r \in messages :
                /\ r.message_id = feed[u].message.message_id
                /\ r.chat_id = feed[u].message.chat.id
                /\ r.user_id = feed[u].message.from.id

\* C27: if no failure and no stop signal ever occurs, every update of a
\* successful response is eventually dispatched, and if it carries a valid
\* message its row is eventually in the messages table.
C27_Progress ==
    []NoFailure => \A u \in UpdateIds : pending(u) ~> ingested(u)

\* The second update of a response, a valid message, has been stored after
\* the first was skipped.
C27_Witness ==
    /\ ingested(2)
    /\ ~skipped(2)
    /\ skipped(1)
    /\ confirmed = 0
    /\ updates = <<>>
    /\ exit = "none"

====
